---- MODULE Spec2Model ----
(***************************************************************************)
(* A model of ufc_rankings_update.py: the last-updated extractor, the      *)
(* table extractor, the history writer and the driver that chains them.    *)
(*                                                                         *)
(* Text is a sequence of one-character or one-word strings: whitespace     *)
(* characters, punctuation marks and digits are single characters, a word  *)
(* stands for a run of letters.  The rank-change cell is kept character by *)
(* character, because the code searches it with regular expressions.       *)
(***************************************************************************)
EXTENDS Integers, Sequences, FiniteSets, TLC

VARIABLES
    today,             \* the calendar date datetime.now() yields
    soup,              \* the document fetched by the latest run
    ufc_last_updated,  \* the result of parse_last_updated in the latest run
    df_new,            \* the result of parse_rankings on soup
    history,           \* the history file: whether it exists, and its lines
    writer,            \* for each line of the file, the ordinal of the write that put it there
    outcome,           \* the exception the latest run ended with, "" when it returned
    stdout,            \* what the latest run printed
    cell,              \* the rank-change cell handed to the rank-change mapping
    rank_change        \* the rank delta computed from cell

vars == <<today, soup, ufc_last_updated, df_new, history, writer, outcome, stdout, cell, rank_change>>

----------------------------------------------------------------------------
(* Text helpers: the str methods and regular expressions the code uses.    *)

WS == {" ", "\n", "\t"}
DIGITS == <<"0", "1", "2", "3", "4", "5", "6", "7", "8", "9">>
DigitSet == {DIGITS[i] : i \in 1..10}
DigitTable == [c \in DigitSet |-> (CHOOSE i \in 1..10 : DIGITS[i] = c) - 1]
DigitVal(c) == DigitTable[c]
DigitChar(n) == DIGITS[n + 1]

Last(s) == s[Len(s)]
Front(s) == SubSeq(s, 1, Len(s) - 1)

RECURSIVE LStrip(_)
LStrip(s) == IF s # <<>> /\ Head(s) \in WS THEN LStrip(Tail(s)) ELSE s

RECURSIVE RStrip(_)
RStrip(s) == IF s # <<>> /\ Last(s) \in WS THEN RStrip(Front(s)) ELSE s

\* str.strip()
Strip(s) == RStrip(LStrip(s))

\* re.sub(r"\s+", " ", s): every run of whitespace becomes one space
RECURSIVE CollapseWS(_)
CollapseWS(s) ==
    IF s = <<>> THEN <<>>
    ELSE IF Head(s) \in WS
         THEN <<" ">> \o CollapseWS(LStrip(s))
         ELSE <<Head(s)>> \o CollapseWS(Tail(s))

StartsWith(s, pat) == Len(s) >= Len(pat) /\ SubSeq(s, 1, Len(pat)) = pat

\* str.replace(pat, ""): every non-overlapping occurrence, left to right
RECURSIVE Remove(_, _)
Remove(s, pat) ==
    IF s = <<>> THEN <<>>
    ELSE IF StartsWith(s, pat)
         THEN Remove(SubSeq(s, Len(pat) + 1, Len(s)), pat)
         ELSE <<Head(s)>> \o Remove(Tail(s), pat)

\* the longest run of digits at the start of s: what (\d+) matches there
RECURSIVE DigitRun(_)
DigitRun(s) ==
    IF s # <<>> /\ Head(s) \in DigitSet THEN <<Head(s)>> \o DigitRun(Tail(s)) ELSE <<>>

AllDigits(s) == \A i \in 1..Len(s) : s[i] \in DigitSet

RECURSIVE DecVal(_)
DecVal(s) == IF s = <<>> THEN 0 ELSE 10 * DecVal(Front(s)) + DigitVal(Last(s))

\* str(n) of a natural number
RECURSIVE NatStr(_)
NatStr(n) == IF n < 10 THEN <<DigitChar(n)>> ELSE NatStr(n \div 10) \o <<DigitChar(n % 10)>>

\* str(n) of an integer
IntStr(n) == IF n < 0 THEN <<"-">> \o NatStr(-n) ELSE NatStr(n)

\* n written with at least w digits, zero padded
Pad(n, w) ==
    LET d == NatStr(n)
    IN IF Len(d) >= w THEN d
       ELSE [i \in 1..w |-> IF i <= w - Len(d) THEN "0" ELSE d[i - (w - Len(d))]]

----------------------------------------------------------------------------
(* Calendar dates: datetime.date.                                          *)

Date(y, m, d) == [year |-> y, month |-> m, day |-> d]
NoDate == Date(0, 0, 0)

IsLeap(y) == (y % 4 = 0 /\ y % 100 # 0) \/ y % 400 = 0

DaysInMonth(y, m) ==
    IF m = 2 THEN (IF IsLeap(y) THEN 29 ELSE 28)
    ELSE IF m \in {4, 6, 9, 11} THEN 30 ELSE 31

\* the dates datetime.date accepts
IsDate(y, m, d) == y >= 1 /\ m \in 1..12 /\ d >= 1 /\ d <= DaysInMonth(y, m)

\* a > b on dates
After(a, b) ==
    \/ a.year > b.year
    \/ a.year = b.year /\ a.month > b.month
    \/ a.year = b.year /\ a.month = b.month /\ a.day > b.day

NextDay(dt) ==
    IF dt.day < DaysInMonth(dt.year, dt.month) THEN Date(dt.year, dt.month, dt.day + 1)
    ELSE IF dt.month < 12 THEN Date(dt.year, dt.month + 1, 1)
    ELSE Date(dt.year + 1, 1, 1)

\* str(date), as to_csv writes a date: YYYY-MM-DD
IsoStr(dt) == Pad(dt.year, 4) \o <<"-">> \o Pad(dt.month, 2) \o <<"-">> \o Pad(dt.day, 2)

\* what parse_dates makes of one cell: the date, or a failure
DateOrNone(y, m, d) ==
    IF IsDate(y, m, d) THEN [ok |-> TRUE, date |-> Date(y, m, d)] ELSE [ok |-> FALSE, date |-> NoDate]

ParseIso(s) ==
    IF /\ Len(s) = 10 /\ s[5] = "-" /\ s[8] = "-"
       /\ \A i \in {1, 2, 3, 4, 6, 7, 9, 10} : s[i] \in DigitSet
    THEN DateOrNone(1000 * DigitVal(s[1]) + 100 * DigitVal(s[2]) + 10 * DigitVal(s[3]) + DigitVal(s[4]),
                    10 * DigitVal(s[6]) + DigitVal(s[7]),
                    10 * DigitVal(s[9]) + DigitVal(s[10]))
    ELSE [ok |-> FALSE, date |-> NoDate]

----------------------------------------------------------------------------
(* parse_last_updated                                                      *)

WEEKDAYS == {"Monday", "Tuesday", "Wednesday", "Thursday", "Friday", "Saturday", "Sunday"}
MONTHS == <<"Jan", "Feb", "Mar", "Apr", "May", "Jun", "Jul", "Aug", "Sep", "Oct", "Nov", "Dec">>
MonthSet == {MONTHS[i] : i \in 1..12}
MonthNum(w) == CHOOSE i \in 1..12 : MONTHS[i] = w
LABEL == <<"Last", " ", "updated:">>

\* datetime.strptime(s, "%A, %b. %d, %Y").date(): the whole of s must match
\* weekday "," space month "." space one-or-two-digit day "," space four-digit
\* year, and the day must exist in that month of that year
Strptime(s) ==
    LET bad == [ok |-> FALSE, date |-> NoDate]
        rest == SubSeq(s, 7, Len(s))
        dd == DigitRun(rest)
        after == SubSeq(rest, Len(dd) + 1, Len(rest))
        yy == SubSeq(after, 3, Len(after))
    IN IF ~(/\ Len(s) >= 7 /\ s[1] \in WEEKDAYS /\ s[2] = "," /\ s[3] = " "
            /\ s[4] \in MonthSet /\ s[5] = "." /\ s[6] = " ")
       THEN bad
       ELSE IF ~(/\ Len(dd) \in {1, 2} /\ DecVal(dd) \in 1..31
                 /\ Len(after) = 6 /\ after[1] = "," /\ after[2] = " " /\ AllDigits(yy))
       THEN bad
       ELSE IF ~IsDate(DecVal(yy), MonthNum(s[4]), DecVal(dd))
       THEN bad
       ELSE [ok |-> TRUE, date |-> Date(DecVal(yy), MonthNum(s[4]), DecVal(dd))]

\* the document's annotation element: soup.find("div", class_="list-denotions"),
\* its first <p>, and the text of that <p>
parse_last_updated(doc, now) ==
    LET raw == doc.p_text
        clean == Strip(CollapseWS(raw))
        last_updated_str == Strip(Remove(clean, LABEL))
        current_year == now.year
        date_str_with_year == last_updated_str \o <<",", " ">> \o NatStr(current_year)
        parsed == Strptime(date_str_with_year)
        dt == parsed.date
    IN IF ~doc.div THEN [ok |-> FALSE, err |-> "RuntimeError: no last-updated div", date |-> NoDate]
       ELSE IF ~doc.p THEN [ok |-> FALSE, err |-> "RuntimeError: no last-updated p", date |-> NoDate]
       ELSE IF ~parsed.ok THEN [ok |-> FALSE, err |-> "ValueError: strptime", date |-> NoDate]
       ELSE IF After(dt, now)
            THEN (IF IsDate(dt.year - 1, dt.month, dt.day)
                  THEN [ok |-> TRUE, err |-> "", date |-> Date(dt.year - 1, dt.month, dt.day)]
                  ELSE [ok |-> FALSE, err |-> "ValueError: replace", date |-> NoDate])
            ELSE [ok |-> TRUE, err |-> "", date |-> dt]

----------------------------------------------------------------------------
(* parse_rankings                                                          *)

BASE == <<"https:", "/", "/", "www.ufc.com">>

\* urljoin("https://www.ufc.com", href)
Urljoin(href) ==
    IF href = <<>> THEN BASE
    ELSE IF Head(href) = "https:" THEN href
    ELSE IF StartsWith(href, <<"/", "/">>) THEN <<"https:">> \o href
    ELSE IF Head(href) = "/" THEN BASE \o href
    ELSE BASE \o <<"/">> \o href

\* int(text): surrounding whitespace and one sign are allowed, then digits only
IntOf(text) ==
    LET s == Strip(text)
        signed == s # <<>> /\ Head(s) \in {"+", "-"}
        digits == IF signed THEN Tail(s) ELSE s
    IN IF digits # <<>> /\ AllDigits(digits)
       THEN [ok |-> TRUE,
             val |-> IF signed /\ Head(s) = "-" THEN 0 - DecVal(digits) ELSE DecVal(digits)]
       ELSE [ok |-> FALSE, val |-> 0]

RANK_INCREASED_BY == <<"R", "a", "n", "k", " ", "i", "n", "c", "r", "e", "a", "s", "e", "d", " ", "b", "y", " ">>
RANK_DECREASED_BY == <<"R", "a", "n", "k", " ", "d", "e", "c", "r", "e", "a", "s", "e", "d", " ", "b", "y", " ">>
NR == <<"N", "R">>

\* re.search(prefix + r"(\d+)", s): group 1 of the leftmost match, <<>> when
\* there is no match (a match always has at least one digit)
RECURSIVE Search(_, _)
Search(s, prefix) ==
    IF Len(s) <= Len(prefix) THEN <<>>
    ELSE IF StartsWith(s, prefix) /\ s[Len(prefix) + 1] \in DigitSet
         THEN DigitRun(SubSeq(s, Len(prefix) + 1, Len(s)))
         ELSE Search(Tail(s), prefix)

\* the rank-change mapping with the decrease looked for before the increase
RankChange_DecreaseFirst(td) ==
    LET text == Strip(CollapseWS(Strip(td.text)))
        inc == Search(text, RANK_INCREASED_BY)
        dec == Search(text, RANK_DECREASED_BY)
    IN IF ~td.found THEN <<>>
       ELSE IF dec # <<>> THEN <<"-">> \o dec
       ELSE IF inc # <<>> THEN <<"+">> \o inc
       ELSE IF text = NR THEN NR
       ELSE <<>>

\* the rank delta of one row, from its rank-change cell
RankChange(td) ==
    LET text == Strip(CollapseWS(Strip(td.text)))
        inc == Search(text, RANK_INCREASED_BY)
        dec == Search(text, RANK_DECREASED_BY)
    IN IF ~td.found THEN <<>>
       ELSE IF inc # <<>> THEN <<"+">> \o inc
       ELSE IF dec # <<>> THEN <<"-">> \o dec
       ELSE IF text = NR THEN NR
       ELSE <<>>

\* the loop over the rows of one table body; ok is FALSE when int() raised
RECURSIVE ParseRows(_, _, _, _, _)
ParseRows(trs, division, champion, snapshot_date, last_updated) ==
    IF trs = <<>> THEN [ok |-> TRUE, rows |-> <<>>]
    ELSE LET tr == Head(trs)
             more == ParseRows(Tail(trs), division, champion, snapshot_date, last_updated)
             fighter_rank == IntOf(tr.rank_td.text)
         IN IF ~tr.rank_td.found THEN more
            ELSE IF ~fighter_rank.ok THEN [ok |-> FALSE, rows |-> <<>>]
            ELSE IF ~tr.a.found THEN more
            ELSE IF ~more.ok THEN more
            ELSE [ok |-> TRUE,
                  rows |-> <<[snapshot_date |-> snapshot_date,
                              ufc_last_updated |-> last_updated,
                              division |-> division,
                              champion |-> champion,
                              fighter |-> Strip(tr.a.text),
                              fighter_url |-> Urljoin(tr.a.href),
                              rank |-> fighter_rank.val,
                              rank_change |-> RankChange(tr.rank_change_td)]>> \o more.rows]

\* the loop over the blocks with the leader read from the h4 instead of the h5
RECURSIVE ParseBlocks_LeaderFromH4(_, _, _)
ParseBlocks_LeaderFromH4(blocks, snapshot_date, last_updated) ==
    IF blocks = <<>> THEN [ok |-> TRUE, rows |-> <<>>]
    ELSE LET group == Head(blocks)
             more == ParseBlocks_LeaderFromH4(Tail(blocks), snapshot_date, last_updated)
             division == Remove(Strip(group.h4.text), <<" ", "Top", " ", "Rank">>)
             champion == Strip(group.h4.text)
             here == ParseRows(group.trs, division, champion, snapshot_date, last_updated)
         IN IF ~group.table \/ ~group.caption \/ ~(group.h4.found /\ group.h5.found) \/ ~group.tbody
            THEN more
            ELSE IF ~here.ok THEN here
            ELSE IF ~more.ok THEN more
            ELSE [ok |-> TRUE, rows |-> here.rows \o more.rows]

\* the loop over the view-grouping blocks
RECURSIVE ParseBlocks(_, _, _)
ParseBlocks(blocks, snapshot_date, last_updated) ==
    IF blocks = <<>> THEN [ok |-> TRUE, rows |-> <<>>]
    ELSE LET group == Head(blocks)
             more == ParseBlocks(Tail(blocks), snapshot_date, last_updated)
             division == Remove(Strip(group.h4.text), <<" ", "Top", " ", "Rank">>)
             champion == Strip(group.h5.text)
             here == ParseRows(group.trs, division, champion, snapshot_date, last_updated)
         IN IF ~group.table \/ ~group.caption \/ ~(group.h4.found /\ group.h5.found) \/ ~group.tbody
            THEN more
            ELSE IF ~here.ok THEN here
            ELSE IF ~more.ok THEN more
            ELSE [ok |-> TRUE, rows |-> here.rows \o more.rows]

parse_rankings(doc, snapshot_date, last_updated) ==
    LET all_rows == ParseBlocks(doc.blocks, snapshot_date, last_updated)
    IN IF ~all_rows.ok THEN [ok |-> FALSE, err |-> "ValueError: int", rows |-> <<>>]
       ELSE IF all_rows.rows = <<>> THEN [ok |-> FALSE, err |-> "RuntimeError: parsed 0 rows", rows |-> <<>>]
       ELSE [ok |-> TRUE, err |-> "", rows |-> all_rows.rows]

----------------------------------------------------------------------------
(* append_history: the history file is a sequence of lines, a line is a    *)
(* sequence of cells, a cell is text.                                      *)

COLS == <<"snapshot_date", "ufc_last_updated", "division", "champion",
          "fighter", "fighter_url", "rank", "rank_change">>

MIN_ROWS == 150

\* the header line to_csv writes: the column names
HeaderLine == [i \in 1..Len(COLS) |-> <<COLS[i]>>]

\* the text to_csv writes for one value of a column
CellStr(r, col) ==
    IF col \in {"snapshot_date", "ufc_last_updated"} THEN IsoStr(r[col])
    ELSE IF col = "rank" THEN IntStr(r[col])
    ELSE r[col]

\* one record as a line, its cells in the order of COLS (df[COLS])
CsvLine(r) == [i \in 1..Len(COLS) |-> CellStr(r, COLS[i])]

\* to_csv that leaves out the last record
ToCsv_DropsLast(df, header) ==
    (IF header THEN <<HeaderLine>> ELSE <<>>) \o [i \in 1..(Len(df) - 1) |-> CsvLine(df[i])]

\* to_csv that writes the header line whether asked for or not
ToCsv_AlwaysHeader(df, header) ==
    <<HeaderLine>> \o [i \in 1..Len(df) |-> CsvLine(df[i])]

\* DataFrame.to_csv: the header line when asked for, then one line per record
ToCsv(df, header) ==
    (IF header THEN <<HeaderLine>> ELSE <<>>) \o [i \in 1..Len(df) |-> CsvLine(df[i])]

\* the dates already saved taken to be the date of the last line alone
ReadUpdates_LastOnly(lines) ==
    LET named == {i \in 1..Len(lines[1]) : lines[1][i] = <<"ufc_last_updated">>}
        col == CHOOSE i \in named : \A j \in named : i <= j
        cells == {ParseIso(lines[k][col]) : k \in {Len(lines)} \ {1}}
    IN IF lines = <<>> \/ named = {} \/ \E c \in cells : ~c.ok
       THEN [ok |-> FALSE, dates |-> {}]
       ELSE [ok |-> TRUE, dates |-> {c.date : c \in cells}]

\* pd.read_csv(...)["ufc_last_updated"]: the first line names the columns, the
\* cells of the named column in the other lines are parsed as dates
ReadUpdates(lines) ==
    LET named == {i \in 1..Len(lines[1]) : lines[1][i] = <<"ufc_last_updated">>}
        col == CHOOSE i \in named : \A j \in named : i <= j
        cells == {ParseIso(lines[k][col]) : k \in 2..Len(lines)}
    IN IF lines = <<>> \/ named = {} \/ \E c \in cells : ~c.ok
       THEN [ok |-> FALSE, dates |-> {}]
       ELSE [ok |-> TRUE, dates |-> {c.date : c \in cells}]

\* a line of standard output
Printed(what, n, k, dt) == [what |-> what, rows |-> n, divisions |-> k, date |-> dt]

\* append_history without the check of the dates already saved
append_history_NoSkip(df, file) ==
    IF file.exists
    THEN [file |-> [exists |-> TRUE, lines |-> file.lines \o ToCsv(df, FALSE)],
          printed |-> <<Printed("Appended", Len(df), 0, df[1].ufc_last_updated)>>, err |-> ""]
    ELSE [file |-> [exists |-> TRUE, lines |-> ToCsv(df, TRUE)],
          printed |-> <<Printed("Created", Len(df), 0, NoDate)>>, err |-> ""]

\* append_history that writes the file anew (mode "w") instead of appending
append_history_Rewrite(df, file) ==
    LET hist == ReadUpdates(file.lines)
        new_update == df[1].ufc_last_updated
    IN IF file.exists
       THEN IF ~hist.ok
            THEN [file |-> file, printed |-> <<>>, err |-> "AttributeError: .dt"]
            ELSE IF new_update \in hist.dates
            THEN [file |-> file, printed |-> <<Printed("No UFC update", 0, 0, new_update)>>,
                  err |-> ""]
            ELSE [file |-> [exists |-> TRUE, lines |-> ToCsv(df, TRUE)],
                  printed |-> <<Printed("Appended", Len(df), 0, new_update)>>, err |-> ""]
       ELSE [file |-> [exists |-> TRUE, lines |-> ToCsv(df, TRUE)],
             printed |-> <<Printed("Created", Len(df), 0, NoDate)>>, err |-> ""]

\* the file after append_history(df_new, history_csv), what it printed, and
\* the exception it ended with ("" when it returned)
append_history(df, file) ==
    LET hist == ReadUpdates(file.lines)
        new_update == df[1].ufc_last_updated
    IN IF file.exists
       THEN IF ~hist.ok
            THEN [file |-> file, printed |-> <<>>, err |-> "AttributeError: .dt"]
            ELSE IF new_update \in hist.dates
            THEN [file |-> file, printed |-> <<Printed("No UFC update", 0, 0, new_update)>>,
                  err |-> ""]
            ELSE [file |-> [exists |-> TRUE, lines |-> file.lines \o ToCsv(df, FALSE)],
                  printed |-> <<Printed("Appended", Len(df), 0, new_update)>>, err |-> ""]
       ELSE [file |-> [exists |-> TRUE, lines |-> ToCsv(df, TRUE)],
             printed |-> <<Printed("Created", Len(df), 0, NoDate)>>, err |-> ""]

----------------------------------------------------------------------------
(* main: one run of the driver on what the fetch returned.                 *)

NotRun == [ok |-> FALSE, err |-> "not run", date |-> NoDate]
NoBatch == [ok |-> FALSE, err |-> "not run", rows |-> <<>>]
NoDoc == [div |-> FALSE, p |-> FALSE, p_text |-> <<>>, blocks |-> <<>>]
NoCell == [found |-> FALSE, text |-> <<>>]

\* the result of main(): the document fetched, the last-updated date, the file
\* the run leaves, what it printed, and the exception it ended with ("" when
\* it returned)
Result(doc, last, file, printed, err) ==
    [soup |-> doc, last |-> last, file |-> file, printed |-> printed, err |-> err]

\* the report main prints of the batch
Sanity(rows, dt) ==
    Printed("Parsed", Len(rows), Cardinality({rows[i].division : i \in 1..Len(rows)}), dt)

\* main after append_history returned or raised
Save(doc, last, sanity, wrote) ==
    Result(doc, last, wrote.file, <<sanity>> \o wrote.printed, wrote.err)

\* main after parse_rankings, without the sanity check of the row count
SanityCheck_Skipped(doc, last, batch, file) ==
    IF ~batch.ok
    THEN Result(doc, last, file, <<>>, batch.err)
    ELSE Save(doc, last, Sanity(batch.rows, last.date), append_history(batch.rows, file))

\* main after parse_rankings: the report, the sanity check of the row count,
\* and append_history
SanityCheck(doc, last, batch, file) ==
    IF ~batch.ok
    THEN Result(doc, last, file, <<>>, batch.err)
    ELSE IF Len(batch.rows) < MIN_ROWS
    THEN Result(doc, last, file, <<Sanity(batch.rows, last.date)>>,
                "RuntimeError: parsed too few rows")
    ELSE Save(doc, last, Sanity(batch.rows, last.date), append_history(batch.rows, file))

\* main after parse_last_updated
Extract(doc, snapshot_date, last, file) ==
    IF ~last.ok
    THEN Result(doc, last, file, <<>>, last.err)
    ELSE SanityCheck(doc, last, parse_rankings(doc, snapshot_date, last.date), file)

\* main() on the response of the fetch, run on the day now with the file
main(resp, now, file) ==
    IF resp.status # "ok"
    THEN Result(NoDoc, NotRun, file, <<>>, resp.status)
    ELSE Extract(resp.doc, now, parse_last_updated(resp.doc, now), file)

----------------------------------------------------------------------------
(* The documents the runs are given.                                       *)

MaxDays == 1
MaxBlocks == 2
MaxTrs == 2
MaxDigits == 2
MaxYears == 2
ROWS_PER_DIVISION == 15

Text(words) == words
Elem(found, text) == [found |-> found, text |-> text]
Link(found, text, href) == [found |-> found, text |-> text, href |-> href]
Tr(rank_td, a, rank_change_td) == [rank_td |-> rank_td, a |-> a, rank_change_td |-> rank_change_td]
Block(table, caption, h4, h5, tbody, trs) ==
    [table |-> table, caption |-> caption, h4 |-> h4, h5 |-> h5, tbody |-> tbody, trs |-> trs]
Doc(div, p, p_text, blocks) == [div |-> div, p |-> p, p_text |-> p_text, blocks |-> blocks]

\* "Last updated: <weekday>, <month>. <day>" as the page lays it out, on lines of its own
LastUpdatedText(weekday, m, d) ==
    <<"\n", " ", " ">> \o LABEL \o <<" ", weekday, ",", " ", MONTHS[m], ".", " ">>
        \o NatStr(d) \o <<"\n">>

DIVISIONS == <<"Flyweight", "Bantamweight", "Featherweight", "Lightweight", "Welterweight",
               "Middleweight", "Heavyweight", "Strawweight", "Atomweight", "Openweight">>

\* the row of rank k in division i of the reference page
RefTr(i, k) ==
    Tr(Elem(TRUE, IF k = 1 THEN <<"\n", "1", "\n">> ELSE NatStr(k)),
       Link(TRUE, <<"Fighter", " ">> \o NatStr(100 * i + k),
            <<"/", "athlete", "/">> \o NatStr(100 * i + k)),
       IF k = 1 THEN Elem(TRUE, RANK_INCREASED_BY \o <<"2">>)
       ELSE IF k = 2 THEN Elem(TRUE, RANK_DECREASED_BY \o <<"1">>)
       ELSE IF k = 3 THEN Elem(TRUE, NR)
       ELSE IF k = 4 THEN Elem(TRUE, <<>>)
       ELSE NoCell)

\* a division of the reference page with n ranked rows
RefBlock(i, n) ==
    Block(TRUE, TRUE, Elem(TRUE, <<DIVISIONS[i]>>), Elem(TRUE, <<"Champion", " ">> \o NatStr(i)),
          TRUE, [k \in 1..n |-> RefTr(i, k)])

Reference == [i \in 1..Len(DIVISIONS) |-> RefBlock(i, ROWS_PER_DIVISION)]

\* one row short of the reference page
Short == [Reference EXCEPT ![Len(DIVISIONS)] = RefBlock(Len(DIVISIONS), ROWS_PER_DIVISION - 1)]

\* the second grouping is the "Top Rank" variant of the first, with its own leader
TwoOfOne ==
    [Reference EXCEPT ![2].h4 = Elem(TRUE, <<DIVISIONS[1], " ", "Top", " ", "Rank">>)]

\* one more row, whose rank cell holds no integer
BadRank ==
    [Reference EXCEPT ![3].trs = @ \o <<Tr(Elem(TRUE, <<"C">>), Link(TRUE, <<"Fighter">>, <<>>), NoCell)>>]

\* groupings that are no ranking tables, and rows without a rank cell or a link
Widgets ==
    <<Block(FALSE, FALSE, NoCell, NoCell, FALSE, <<>>),
      Block(TRUE, FALSE, NoCell, NoCell, TRUE, <<RefTr(1, 1)>>)>>
    \o [Reference EXCEPT
           ![1].trs = <<Tr(NoCell, Link(TRUE, <<"Fighter">>, <<>>), NoCell)>> \o @,
           ![2].trs = @ \o <<Tr(Elem(TRUE, <<"1", "6">>), Link(FALSE, <<>>, <<>>), NoCell)>>]
    \o <<Block(TRUE, TRUE, Elem(TRUE, <<"Flyweight">>), NoCell, TRUE, <<RefTr(1, 1)>>),
          Block(TRUE, TRUE, Elem(TRUE, <<"Flyweight">>), Elem(TRUE, <<"Champion">>), FALSE, <<>>)>>

DEC_31 == LastUpdatedText("Tuesday", 12, 31)
JAN_1 == LastUpdatedText("Wednesday", 1, 1)

Documents ==
    {Doc(FALSE, FALSE, <<>>, Reference),
     Doc(TRUE, FALSE, <<>>, Reference),
     Doc(TRUE, TRUE, LABEL \o <<" ", "soon">>, Reference),
     Doc(TRUE, TRUE, DEC_31, Reference),
     Doc(TRUE, TRUE, JAN_1, TwoOfOne),
     Doc(TRUE, TRUE, DEC_31, Widgets),
     Doc(TRUE, TRUE, DEC_31, Short),
     Doc(TRUE, TRUE, DEC_31, BadRank),
     Doc(TRUE, TRUE, DEC_31, <<>>)}

Responses ==
    {[status |-> "HTTPError", doc |-> NoDoc]} \cup {[status |-> "ok", doc |-> d] : d \in Documents}

----------------------------------------------------------------------------
(* The driver run after run, with the calendar moving on between runs.     *)

StartDate == Date(2024, 12, 31)

RECURSIVE DaysLater(_, _)
DaysLater(dt, n) == IF n = 0 THEN dt ELSE DaysLater(NextDay(dt), n - 1)

Init ==
    /\ today = StartDate
    /\ soup = NoDoc
    /\ ufc_last_updated = NotRun
    /\ df_new = NoBatch
    /\ history = [exists |-> FALSE, lines |-> <<>>]
    /\ writer = <<>>
    /\ outcome = "not run"
    /\ stdout = <<>>
    /\ cell = NoCell
    /\ rank_change = <<>>

\* midnight passes between two runs
Tick ==
    /\ today # DaysLater(StartDate, MaxDays)
    /\ today' = NextDay(today)
    /\ UNCHANGED <<soup, ufc_last_updated, df_new, history, writer, outcome, stdout, cell,
                   rank_change>>

\* the state after a run of main() that ended as run; writer gives each new
\* line the ordinal of the run that wrote it, 0 for the header line
Ran(run) ==
    /\ soup' = run.soup
    /\ ufc_last_updated' = run.last
    /\ history' = run.file
    /\ outcome' = run.err
    /\ stdout' = run.printed
    /\ writer' = IF ~history.exists /\ run.file.exists
                 THEN <<0>> \o [k \in 1..(Len(run.file.lines) - 1) |-> 1]
                 ELSE writer \o [k \in 1..(Len(run.file.lines) - Len(history.lines)) |->
                                    IF writer = <<>> THEN 1 ELSE Last(writer) + 1]
    /\ UNCHANGED <<today, df_new, cell, rank_change>>

\* one run of main() on the response resp of the fetch
Main(resp) == Ran(main(resp, today, history))

Run == \E resp \in Responses : Main(resp)

Next == Tick \/ Run

Spec == Init /\ [][Next]_vars

----------------------------------------------------------------------------
(* parse_last_updated alone, on every day of the calendar and every        *)
(* "month. day" text.                                                      *)

Years == 2023..(2023 + MaxYears)
Calendar == {dt \in [year : Years, month : 1..12, day : 1..31] : IsDate(dt.year, dt.month, dt.day)}

WEEK == <<"Monday", "Tuesday", "Wednesday", "Thursday", "Friday", "Saturday", "Sunday">>
DateTexts == {LastUpdatedText(WEEK[((m + d) % 7) + 1], m, d) : m \in 1..12, d \in 1..31}

InitDate ==
    /\ today \in Calendar
    /\ soup \in {Doc(TRUE, TRUE, t, <<>>) : t \in DateTexts}
    /\ ufc_last_updated = NotRun
    /\ df_new = NoBatch
    /\ history = [exists |-> FALSE, lines |-> <<>>]
    /\ writer = <<>>
    /\ outcome = "not run"
    /\ stdout = <<>>
    /\ cell = NoCell
    /\ rank_change = <<>>

LastUpdated ==
    /\ outcome = "not run"
    /\ ufc_last_updated' = parse_last_updated(soup, today)
    /\ outcome' = ufc_last_updated'.err
    /\ UNCHANGED <<today, soup, df_new, history, writer, stdout, cell, rank_change>>

NextDate == LastUpdated

SpecDate == InitDate /\ [][NextDate]_vars

----------------------------------------------------------------------------
(* parse_rankings alone, on every small document.                          *)

SeqsUpTo(S, n) == UNION {[1..k -> S] : k \in 0..n}

\* the captions of a grouping: two groupings of one division with different
\* leaders, and two groupings that are no ranking tables
Captions ==
    {Block(TRUE, TRUE, Elem(TRUE, <<"Flyweight">>), Elem(TRUE, <<"Champion", " ", "1">>), TRUE, <<>>),
     Block(TRUE, TRUE, Elem(TRUE, <<"\n", "Flyweight", " ", "Top", " ", "Rank", "\n">>),
           Elem(TRUE, <<"Champion", " ", "2">>), TRUE, <<>>),
     Block(TRUE, TRUE, Elem(TRUE, <<"Flyweight">>), NoCell, TRUE, <<>>),
     Block(FALSE, FALSE, NoCell, NoCell, FALSE, <<>>)}

SmallTrs ==
    {Tr(Elem(TRUE, <<"1">>), Link(TRUE, <<"Fighter", " ", "1">>, <<"/", "athlete", "/", "1">>),
        Elem(TRUE, RANK_INCREASED_BY \o <<"2">>)),
     Tr(Elem(TRUE, <<" ", "2", "\n">>), Link(TRUE, <<"Fighter", " ", "2">>, <<>>), NoCell),
     Tr(Elem(TRUE, <<"0">>), Link(TRUE, <<"Fighter", " ", "0">>, <<"athlete", "/", "0">>),
        Elem(TRUE, NR)),
     Tr(NoCell, Link(TRUE, <<"Fighter", " ", "3">>, <<>>), NoCell),
     Tr(Elem(TRUE, <<"C">>), Link(TRUE, <<"Fighter", " ", "4">>, <<>>), NoCell),
     Tr(Elem(TRUE, <<"3">>), Link(FALSE, <<>>, <<>>), NoCell)}

\* the ways to cut n rows into nb consecutive runs, one per grouping
Cuts(nb, n) ==
    {cut \in [1..nb -> 0..n] :
        /\ \A i \in 1..nb : i < nb => cut[i] <= cut[i + 1]
        /\ (IF nb = 0 THEN n = 0 ELSE cut[nb] = n)}

\* the groupings with captions caps whose rows are trs, cut at cut
Groupings(caps, trs, cut) ==
    [i \in 1..Len(caps) |->
        [caps[i] EXCEPT !.trs = SubSeq(trs, (IF i = 1 THEN 0 ELSE cut[i - 1]) + 1, cut[i])]]

SmallDocuments ==
    {Doc(TRUE, TRUE, JAN_1, Groupings(caps, trs, cut)) :
        <<caps, trs, cut>> \in
            {x \in SeqsUpTo(Captions, MaxBlocks) \X SeqsUpTo(SmallTrs, MaxTrs)
                    \X UNION {[1..nb -> 0..MaxTrs] : nb \in 0..MaxBlocks} :
                x[3] \in Cuts(Len(x[1]), Len(x[2]))}}

InitParse ==
    /\ today = StartDate
    /\ soup \in SmallDocuments
    /\ ufc_last_updated = parse_last_updated(soup, today)
    /\ df_new = NoBatch
    /\ history = [exists |-> FALSE, lines |-> <<>>]
    /\ writer = <<>>
    /\ outcome = "not run"
    /\ stdout = <<>>
    /\ cell = NoCell
    /\ rank_change = <<>>

Rankings ==
    /\ outcome = "not run"
    /\ df_new' = parse_rankings(soup, today, ufc_last_updated.date)
    /\ outcome' = df_new'.err
    /\ UNCHANGED <<today, soup, ufc_last_updated, history, writer, stdout, cell, rank_change>>

NextParse == Rankings

SpecParse == InitParse /\ [][NextParse]_vars

----------------------------------------------------------------------------
(* The rank-change mapping alone, on every short cell text.                *)

CellTexts ==
    {pre \o core \o digits \o post :
        pre \in {<<>>, <<"\n", " ">>, <<"x">>, <<"N", "R", " ">>},
        core \in {<<>>, RANK_INCREASED_BY, RANK_DECREASED_BY, NR,
                  <<"R", "a", "n", "k", "\n", " ">> \o SubSeq(RANK_INCREASED_BY, 6, 18),
                  <<"i", "n", "c", "r", "e", "a", "s", "e", "d", " ", "b", "y", " ">>},
        digits \in SeqsUpTo({"0", "1", "3"}, MaxDigits),
        post \in {<<>>, <<" ", "\n">>, <<"x">>, <<" ">> \o RANK_DECREASED_BY \o <<"2">>}}

InitChange ==
    /\ today = StartDate
    /\ soup = NoDoc
    /\ ufc_last_updated = NotRun
    /\ df_new = NoBatch
    /\ history = [exists |-> FALSE, lines |-> <<>>]
    /\ writer = <<>>
    /\ outcome = "not run"
    /\ stdout = <<>>
    /\ cell \in {NoCell} \cup {Elem(TRUE, t) : t \in CellTexts}
    /\ rank_change = <<>>

Change ==
    /\ outcome = "not run"
    /\ rank_change' = RankChange(cell)
    /\ outcome' = ""
    /\ UNCHANGED <<today, soup, ufc_last_updated, df_new, history, writer, stdout, cell>>

NextChange == Change

SpecChange == InitChange /\ [][NextChange]_vars

----------------------------------------------------------------------------
(* What the claims speak of.                                               *)

IsPrefix(a, b) == Len(a) <= Len(b) /\ SubSeq(b, 1, Len(a)) = a

\* a step of the driver: the calendar stands still during a run
RunStep == today' = today

\* what the latest run reported last: "Created", "Appended", "No UFC update",
\* "Parsed" (the run failed its sanity check) or "" (it printed nothing)
Reported == IF stdout = <<>> THEN "" ELSE Last(stdout).what

\* the latest run went through append_history and returned
Completed == outcome = "" /\ Reported \in {"Created", "Appended", "No UFC update"}

\* the data lines of the file, without the header
DataLines(file) == IF file.lines = <<>> THEN <<>> ELSE Tail(file.lines)

\* a line that holds a record in the order of COLS: two dates first, an
\* integer in the seventh cell
IsDataLine(l) ==
    /\ Len(l) = Len(COLS)
    /\ l # HeaderLine
    /\ ParseIso(l[1]).ok /\ ParseIso(l[2]).ok
    /\ IntOf(l[7]).ok

\* C1: when a run that went through append_history is followed by a run that
\* extracts the same source-update date, the second run leaves the history
\* file as it is, and if it reaches append_history it reports the skip.
C1_Idempotent ==
    [][(/\ RunStep
        /\ Completed
        /\ ufc_last_updated'.ok
        /\ ufc_last_updated'.date = ufc_last_updated.date)
       => (/\ history' = history
           /\ (outcome' = "" => Last(stdout').what = "No UFC update"))]_vars

\* a second run was skipped on a file that an earlier run had appended to
C1_Witness ==
    /\ Completed
    /\ Reported = "No UFC update"
    /\ Len(history.lines) > 2 * MIN_ROWS
    /\ Last(history.lines)[2] = IsoStr(ufc_last_updated.date)

\* C2: the lines of the file before a step are a prefix of its lines after
\* the step: a strict prefix when the run reports a creation or an append,
\* the same lines when it reports a skip.
C2_AppendOnly ==
    [][/\ IsPrefix(history.lines, history'.lines)
       /\ (RunStep /\ outcome' = "" /\ Last(stdout').what \in {"Created", "Appended"}
              => Len(DataLines(history')) > Len(DataLines(history)))
       /\ (RunStep /\ outcome' = "" /\ Last(stdout').what = "No UFC update"
              => history' = history)]_vars

\* a run appended to an existing file
C2_Witness == Completed /\ Reported = "Appended" /\ Len(history.lines) > 2 * MIN_ROWS

\* C3: a run changes the history file only if parse_last_updated and
\* parse_rankings succeeded and the batch has at least MIN_ROWS rows, and
\* then it writes the whole batch; a run that ends with an exception leaves
\* the file as it is and never reached append_history.
C3_WritesOnlySaneBatches ==
    [][RunStep =>
        /\ (history' # history =>
               /\ outcome' = ""
               /\ ufc_last_updated'.ok
               /\ stdout'[1].what = "Parsed" /\ stdout'[1].rows >= MIN_ROWS
               /\ Len(DataLines(history')) - Len(DataLines(history)) = stdout'[1].rows)
        /\ (outcome' # "" =>
               /\ history' = history
               /\ \A i \in 1..Len(stdout') : stdout'[i].what = "Parsed")]_vars

\* a run with a batch one row short of the minimum ended with an error, the
\* file of the earlier runs still there
C3_Witness ==
    /\ outcome = "RuntimeError: parsed too few rows"
    /\ stdout[1].rows = MIN_ROWS - 1
    /\ history.exists
    /\ Len(history.lines) > MIN_ROWS

\* C8: the history file, once it exists, starts with the header line, and
\* every other line is a data line in the order of COLS, so no header line
\* follows the first; before the first write there is no file.
C8_SingleHeader ==
    IF history.exists
    THEN /\ history.lines # <<>>
         /\ history.lines[1] = HeaderLine
         /\ \A i \in 2..Len(history.lines) : IsDataLine(history.lines[i])
    ELSE history.lines = <<>>

\* the file holds the batches of two runs
C8_Witness == history.exists /\ Len(history.lines) > 2 * MIN_ROWS

\* the source-update dates of the lines that write w put into the file
DatesWrittenBy(w) ==
    {history.lines[i][2] : i \in {k \in 2..Len(history.lines) : writer[k] = w}}

----------------------------------------------------------------------------
(* What a document holds, told without the extractor.                      *)

\* a grouping that holds a ranking table with both captions
IsRanking(g) == g.table /\ g.caption /\ g.h4.found /\ g.h5.found /\ g.tbody
CategoryOf(g) == Remove(Strip(g.h4.text), <<" ", "Top", " ", "Rank">>)
LeaderOf(g) == Strip(g.h5.text)

\* a row with a rank cell that holds an integer and a linked name
WellFormed(tr) == tr.rank_td.found /\ IntOf(tr.rank_td.text).ok /\ tr.a.found
RankOf(tr) == IntOf(tr.rank_td.text).val

RECURSIVE Flatten(_)
Flatten(ss) == IF ss = <<>> THEN <<>> ELSE Head(ss) \o Flatten(Tail(ss))

WellFormedOf(g) == IF IsRanking(g) THEN SelectSeq(g.trs, WellFormed) ELSE <<>>

\* the well-formed rows of the ranking tables, in document order, each with
\* the category and the leader of its grouping
Expected(doc) ==
    Flatten([i \in 1..Len(doc.blocks) |->
        LET g == doc.blocks[i]
            wf == WellFormedOf(g)
        IN [k \in 1..Len(wf) |->
               [division |-> CategoryOf(g), champion |-> LeaderOf(g),
                fighter |-> Strip(wf[k].a.text), rank |-> RankOf(wf[k])]]])

\* the rank cells of the rows read 1, 2, ... in order
InOrder(trs) == \A k \in 1..Len(trs) : RankOf(trs[k]) = k

\* the category of every ranking table is its own, and the rank cells of
\* its well-formed rows read 1, 2, ... in order
Regular(doc) ==
    /\ \A i, j \in 1..Len(doc.blocks) :
          (i # j /\ IsRanking(doc.blocks[i]) /\ IsRanking(doc.blocks[j]))
              => CategoryOf(doc.blocks[i]) # CategoryOf(doc.blocks[j])
    /\ \A i \in 1..Len(doc.blocks) : InOrder(WellFormedOf(doc.blocks[i]))

\* groupings that give the same category give the same leader
OneLeaderPerCategory(doc) ==
    \A i, j \in 1..Len(doc.blocks) :
        (IsRanking(doc.blocks[i]) /\ IsRanking(doc.blocks[j])
            /\ CategoryOf(doc.blocks[i]) = CategoryOf(doc.blocks[j]))
        => LeaderOf(doc.blocks[i]) = LeaderOf(doc.blocks[j])

\* the lines the step put into the file, the header left out
NewLines ==
    SubSeq(history'.lines, (IF history.lines = <<>> THEN 1 ELSE Len(history.lines)) + 1,
           Len(history'.lines))

\* category and rank of each well-formed row, of each line
ExpectedPairs(doc) ==
    Flatten([i \in 1..Len(doc.blocks) |->
        LET g == doc.blocks[i]
            wf == WellFormedOf(g)
        IN [k \in 1..Len(wf) |-> <<CategoryOf(g), RankOf(wf[k])>>]])
LinePairs(lines) == [i \in 1..Len(lines) |-> <<lines[i][3], IntOf(lines[i][7]).val>>]
Range(f) == {f[i] : i \in DOMAIN f}

InRange(at, pairs) == {pairs[i][2] : i \in at} = 1..Cardinality(at)

\* within each category of the pairs the ranks are exactly 1..N, each once
Contiguous(pairs) ==
    \A c \in {pairs[i][1] : i \in DOMAIN pairs} :
        InRange({i \in DOMAIN pairs : pairs[i][1] = c}, pairs)

AsClaimed(new, extracted) ==
    /\ Len(new) = Cardinality(Range(extracted))
    /\ Contiguous(extracted)

Conserved(written, extracted, regular) ==
    /\ written = extracted
    /\ regular => (Len(written) = Cardinality(Range(written)) /\ Contiguous(written))

\* C5 as claimed: the rows a run appends are as many as the distinct
\* (category, rank) pairs extracted, and within each category the extracted
\* ranks are 1..N.
C5_AsClaimed ==
    [][(RunStep /\ history' # history) =>
           AsClaimed(NewLines, ExpectedPairs(soup'))]_vars

\* C5 as amended: the rows a run appends are as many as the records
\* extracted, one per well-formed row of the ranking tables and in their
\* order, with the category of the grouping and the integer of the rank cell;
\* on a regular document these are as many as the distinct (category, rank)
\* pairs and the ranks of each category are 1..N.
C5_RowCount ==
    [][(RunStep /\ history' # history) =>
           /\ Len(NewLines) = stdout'[1].rows
           /\ Conserved(LinePairs(NewLines), ExpectedPairs(soup'), Regular(soup'))]_vars

\* a run appended the batch of a regular document that also holds rows
\* without a rank cell or a link, and groupings that are no ranking tables
C5_Witness ==
    /\ Completed
    /\ Reported \in {"Created", "Appended"}
    /\ Regular(soup)
    /\ \E i \in 1..Len(soup.blocks) : ~IsRanking(soup.blocks[i])
    /\ \E i \in 1..Len(soup.blocks) :
          IsRanking(soup.blocks[i]) /\ Len(WellFormedOf(soup.blocks[i])) < Len(soup.blocks[i].trs)

\* C7 as claimed: a row without a rank cell, with a rank text that is no
\* integer, or without a linked name is skipped, and the other rows are
\* emitted in document order.
C7_RowsSkipped ==
    (outcome # "not run" /\ Expected(soup) # <<>>) =>
        /\ df_new.ok
        /\ Len(df_new.rows) = Len(Expected(soup))
        /\ \A i \in 1..Len(df_new.rows) :
              /\ df_new.rows[i].fighter = Expected(soup)[i].fighter
              /\ df_new.rows[i].rank = Expected(soup)[i].rank

\* C9 as claimed: two records of a batch with the same category have the
\* same leader, the same source-update date and the same snapshot date.
C9_AsClaimed ==
    df_new.ok =>
        \A i, j \in 1..Len(df_new.rows) :
            df_new.rows[i].division = df_new.rows[j].division
            => /\ df_new.rows[i].champion = df_new.rows[j].champion
               /\ df_new.rows[i].ufc_last_updated = df_new.rows[j].ufc_last_updated
               /\ df_new.rows[i].snapshot_date = df_new.rows[j].snapshot_date

\* C9 as amended: every record of a batch carries the snapshot date and the
\* source-update date of the run, and the category and the leader of the
\* grouping it was read from; so two records with the same category have the
\* same leader when the groupings that give that category give one leader.
C9_TaggedByGrouping ==
    df_new.ok =>
        /\ Len(df_new.rows) = Len(Expected(soup))
        /\ \A i \in 1..Len(df_new.rows) :
              /\ df_new.rows[i].snapshot_date = today
              /\ df_new.rows[i].ufc_last_updated = ufc_last_updated.date
              /\ df_new.rows[i].division = Expected(soup)[i].division
              /\ df_new.rows[i].champion = Expected(soup)[i].champion
        /\ OneLeaderPerCategory(soup) =>
              \A i, j \in 1..Len(df_new.rows) :
                  df_new.rows[i].division = df_new.rows[j].division
                  => df_new.rows[i].champion = df_new.rows[j].champion

\* a batch with one record from each of two groupings of one category, the
\* second captioned with the "Top Rank" suffix
C9_Witness ==
    /\ df_new.ok
    /\ Len(df_new.rows) = 2
    /\ Len(soup.blocks) = 2
    /\ Len(soup.blocks[1].trs) = 1
    /\ Strip(soup.blocks[1].h4.text) # Strip(soup.blocks[2].h4.text)
    /\ df_new.rows[1].division = df_new.rows[2].division
    /\ df_new.rows[1].champion # df_new.rows[2].champion

----------------------------------------------------------------------------
(* The rank delta of a row.                                                *)

\* the cell's text with its whitespace normalised
CellText == Strip(CollapseWS(Strip(cell.text)))

\* t is the phrase followed by a number and nothing else
IsPhrase(t, phrase) ==
    /\ StartsWith(t, phrase)
    /\ Len(t) > Len(phrase)
    /\ AllDigits(SubSeq(t, Len(phrase) + 1, Len(t)))

\* the places of t where the phrase stands followed by a digit
Occurrences(t, phrase) ==
    {i \in 1..Len(t) :
        /\ i + Len(phrase) <= Len(t)
        /\ SubSeq(t, i, i + Len(phrase) - 1) = phrase
        /\ t[i + Len(phrase)] \in DigitSet}

\* the number that follows the first occurrence of the phrase in t
NumberAfter(t, phrase) ==
    LET first == CHOOSE i \in Occurrences(t, phrase) :
                     \A j \in Occurrences(t, phrase) : i <= j
        from == first + Len(phrase)
        to == CHOOSE k \in from..Len(t) :
                  /\ \A j \in from..k : t[j] \in DigitSet
                  /\ k = Len(t) \/ t[k + 1] \notin DigitSet
    IN SubSeq(t, from, to)

FourShapes(delta) ==
    \/ delta = <<>>
    \/ delta = NR
    \/ Len(delta) > 1 /\ Head(delta) \in {"+", "-"} /\ AllDigits(Tail(delta))

\* C6 as claimed: the rank delta is "+N" when the cell's text is "Rank
\* increased by N", "-N" when it is "Rank decreased by N", "NR" when it is
\* exactly "NR", and empty when the cell is absent or its text is anything
\* else.
C6_AsClaimed ==
    outcome = "" =>
        /\ FourShapes(rank_change)
        /\ rank_change =
              IF ~cell.found THEN <<>>
              ELSE IF IsPhrase(CellText, RANK_INCREASED_BY)
                   THEN <<"+">> \o SubSeq(CellText, Len(RANK_INCREASED_BY) + 1, Len(CellText))
              ELSE IF IsPhrase(CellText, RANK_DECREASED_BY)
                   THEN <<"-">> \o SubSeq(CellText, Len(RANK_DECREASED_BY) + 1, Len(CellText))
              ELSE IF CellText = NR THEN NR
              ELSE <<>>

\* C6 as amended: the rank delta is "+N" when the cell's text contains "Rank
\* increased by N", N the number after the first such place; otherwise "-N"
\* when it contains "Rank decreased by N"; otherwise "NR" when the text is
\* exactly "NR"; and empty when the cell is absent or its text is anything
\* else. The result is always one of these four shapes.
C6_Mapping ==
    outcome = "" =>
        /\ FourShapes(rank_change)
        /\ rank_change =
              IF ~cell.found THEN <<>>
              ELSE IF Occurrences(CellText, RANK_INCREASED_BY) # {}
                   THEN <<"+">> \o NumberAfter(CellText, RANK_INCREASED_BY)
              ELSE IF Occurrences(CellText, RANK_DECREASED_BY) # {}
                   THEN <<"-">> \o NumberAfter(CellText, RANK_DECREASED_BY)
              ELSE IF CellText = NR THEN NR
              ELSE <<>>

\* the delta of a cell whose text holds the increase inside other text and
\* a decrease after it
C6_Witness ==
    /\ outcome = ""
    /\ cell.found
    /\ Occurrences(CellText, RANK_INCREASED_BY) # {}
    /\ Occurrences(CellText, RANK_DECREASED_BY) # {}
    /\ ~StartsWith(CellText, RANK_INCREASED_BY)
    /\ Head(rank_change) = "+"

----------------------------------------------------------------------------
(* The year of the last update.                                            *)

TextMonth == MonthNum(soup.p_text[11])
TextDay == DecVal(SubSeq(soup.p_text, 14, Len(soup.p_text) - 1))

\* C4 as claimed: for every valid "weekday, month. day" text and every
\* today, parse_last_updated returns a date; it has that month and day, in
\* the current year when that is not after today and in the previous year
\* when it is, and it is never after today.
C4_YearRollover ==
    (outcome # "not run" /\ TextDay <= DaysInMonth(2024, TextMonth)) =>
        /\ ufc_last_updated.ok
        /\ ufc_last_updated.date.month = TextMonth
        /\ ufc_last_updated.date.day = TextDay
        /\ ufc_last_updated.date.year =
              IF After([year |-> today.year, month |-> TextMonth, day |-> TextDay], today)
              THEN today.year - 1 ELSE today.year
        /\ ~After(ufc_last_updated.date, today)

====
